---- MODULE Spec2Model ----
(***************************************************************************)
(* test.me: the web frontend's authentication gate and API client, the     *)
(* backend's token-gated routes and AI-provider factory, the subject       *)
(* page's PDF upload and the exam page's answer auto-save and submit.      *)
(***************************************************************************)
EXTENDS Integers, Sequences, FiniteSets, TLC

VARIABLES
  \* ---- browser: auth gate and API client ----
  nodeEnv,       \* process.env.NODE_ENV of the build
  variant,       \* which ProtectedRoute the build ships: "plain" | "bypass"
  devLoggedIn,   \* sessionStorage 'dev-logged-in' = 'true'
  fbPersisted,   \* the Firebase user kept in the browser's persistence
  currentUser,   \* auth.currentUser (in memory, restored after a page load)
  page,          \* the page mounted: "none" | "/dashboard" | "/login"
  mounted,       \* useAuth's mount effect has run
  listening,     \* onAuthStateChanged: "no" | "registered" | "ready"
  user,          \* useAuth state: user
  loading,       \* useAuth state: loading
  idToken,       \* useAuth state: idToken
  pendingTok,    \* token fetches of the auth callback still awaited
  view,          \* what ProtectedRoute rendered last
  pushPending,   \* router.push("/login") issued by ProtectedRoute, not yet done
  redirect,      \* what caused the last navigation
  requests,      \* the requests apiClient has sent
  inflight,      \* requests sent and not yet answered
  \* ---- backend: FastAPI routes over Firestore and Cloud Storage ----
  defaultProvider, \* settings.default_ai_provider (DEFAULT_AI_PROVIDER)
  pdfs,          \* Firestore users/{user_id}/pdfs: user -> file ids
  storage,       \* Cloud Storage objects pdfs/{user_id}/{uuid}.pdf
  exams,         \* Firestore users/{user_id}/exams: user -> exam documents
  nextFile,      \* file ids handed out so far
  nextExam,      \* exam ids handed out so far
  resp,          \* the request handled last and its response
  \* ---- direct calls of the AI factory ----
  calls,         \* the get_ai_service calls made: argument and outcome
  \* ---- browser: generate-exam form ----
  formData,      \* GenerateExamPage state: formData
  formLoading,   \* GenerateExamPage state: loading
  formSent,      \* the generateExam call awaited, <<>> when none
  formOutcome,   \* how the last handleSubmit ended
  \* ---- browser: subject page, PDF upload ----
  srvPdfs,       \* file ids the server stores for the subject
  pagePdfs,      \* SubjectDetailPage state: pdfs (their file ids)
  subject,       \* SubjectDetailPage state: subject is not null
  pageLoading,   \* SubjectDetailPage state: loading
  uploading,     \* SubjectDetailPage state: uploading
  uploadCall,    \* the uploadPDF call awaited, <<>> when none
  uploadsSent,   \* the files passed to uploadPDF so far
  loads,         \* the loadData calls awaited
  upEvent,       \* the handler that ran last and the file it was given
  deleteCall,    \* the deletePDF call awaited, <<>> when none
  upNextId,      \* the number of file ids the server has given out
  reqFailed,     \* a loadData or deletePDF request has failed
  \* ---- browser: exam page ----
  localStorage,  \* per exam id, the item exam_{examId}_answers
  examId,        \* the exam whose page is open, "none" when closed
  exam,          \* ExamPage state: exam, its questions once loaded
  examLoading,   \* ExamPage state: loading
  answers,       \* ExamPage state: answers
  submitted,     \* ExamPage state: submitted
  examFetch,     \* a getExam call is awaited
  examEvent,     \* the handler that ran last and the toast it showed
  entered,       \* per exam id, the answers as last entered and not submitted
  \* ---- browser: lib/auth called directly ----
  devLoginResult, \* what the last devLogin() call returned
  sessionOp,     \* the last of devLogin / signOut performed in the session
  \* ---- backend: GPTService ----
  gptRun,        \* the OpenAI request being served and the models tried for it
  gptLog,        \* the requests served so far: models tried and outcome
  \* ---- scripts/dev.sh ----
  shPc,          \* the statement dev.sh executes next, "dead" once it has ended
  proc,          \* per background job of dev.sh: "none" | "running" | "dead"
  sigint,        \* dev.sh has a SIGINT pending
  term,          \* the jobs that have a SIGTERM pending
  sigintSeen,    \* a SIGINT arrived while both servers were started
  \* ---- browser: lib/api/client.ts ----
  apiPending,    \* a call through apiClient is awaited
  apiError,      \* the error axios handed to the response interceptor last
  apiRejection,  \* what that call's promise was rejected with
  windowLocation, \* window.location.href as the interceptor leaves it
  \* ---- Android: StudentRegistrationScreen ----
  name,          \* remembered state: name
  studentId,     \* remembered state: studentId
  selectedPlan,  \* remembered state: selectedPlan
  notificationsEnabled, \* remembered state: notificationsEnabled
  termsAgreed,   \* remembered state: termsAgreed
  showSummary,   \* remembered state: showSummary
  regEvent       \* the callback that ran last and the toast it showed

authVars == <<nodeEnv, variant, devLoggedIn, fbPersisted, currentUser, page,
              mounted, listening, user, loading, idToken, pendingTok, view,
              pushPending, redirect, requests, inflight>>

backendVars == <<defaultProvider, pdfs, storage, exams, nextFile, nextExam,
                 resp>>

factoryVars == <<calls>>

formVars == <<formData, formLoading, formSent, formOutcome>>

uploadVars == <<srvPdfs, pagePdfs, subject, pageLoading, uploading,
                uploadCall, uploadsSent, loads, upEvent, deleteCall, upNextId,
                reqFailed>>

examVars == <<localStorage, examId, exam, examLoading, answers, submitted,
              examFetch, examEvent, entered>>

devVars == <<devLoginResult, sessionOp>>

gptVars == <<gptRun, gptLog>>

\* The web application's state and the state of the other programs
webVars == <<authVars, backendVars, factoryVars, formVars, uploadVars, examVars,
             devVars>>
shVars == <<shPc, proc, sigint, term, sigintSeen>>
apiVars == <<apiPending, apiError, apiRejection, windowLocation>>
regVars == <<name, studentId, selectedPlan, notificationsEnabled, termsAgreed,
             showSummary, regEvent>>
extraVars == <<gptVars, shVars, apiVars, regVars>>

vars == <<webVars, extraVars>>

\* What the actions of one part leave alone
notAuth ==
  <<backendVars, factoryVars, formVars, uploadVars, examVars, devVars,
    extraVars>>
notBackend ==
  <<authVars, factoryVars, formVars, uploadVars, examVars, devVars,
    extraVars>>
notFactory ==
  <<authVars, backendVars, formVars, uploadVars, examVars, devVars,
    extraVars>>
notForm ==
  <<authVars, factoryVars, uploadVars, examVars, devVars,
    extraVars>>
notUpload ==
  <<authVars, backendVars, factoryVars, formVars, examVars, devVars,
    extraVars>>
notAuthDev ==
  <<backendVars, factoryVars, formVars, uploadVars, examVars,
    extraVars>>
notGpt == <<webVars, shVars, apiVars, regVars>>
notSh == <<webVars, gptVars, apiVars, regVars>>
notApi == <<webVars, gptVars, shVars, regVars>>
notReg == <<webVars, gptVars, shVars, apiVars>>
notExam ==
  <<authVars, backendVars, factoryVars, formVars, uploadVars, devVars,
    extraVars>>

----------------------------------------------------------------------------
\* Bounds of the model
MaxInflight == 1
MaxPending == 2
MaxFiles == 2
MaxExams == 1
MaxUploads == 2
MaxLoads == 2
MaxQuestions == 2

----------------------------------------------------------------------------
\* Browser: useAuth, ProtectedRoute, apiClient, lib/auth

NoUser == "null"
NoToken == <<"null">>
FirebaseUsers == {"u1"}
MockUid == "dev-user-123"
MockToken == <<"dev-token-123">>
NoHeader == <<"none">>

\* user.getIdToken() of a Firebase user
FirebaseToken(u) == <<"firebase-id-token", u>>

\* createMockUser().getIdToken / a Firebase user's getIdToken
UserToken(u) == IF u = MockUid THEN MockToken ELSE FirebaseToken(u)

isDevelopment == nodeEnv = "development"

isAuthenticated == user # NoUser

\* ProtectedRoute's development bypass (the second variant only)
Bypassed == variant = "bypass" /\ isDevelopment

\* A ProtectedRoute that does not wait for loading to finish
ProtectedRouteRenderNoLoading(l, u) ==
  IF Bypassed THEN "children"
  ELSE IF u = NoUser THEN "null"
  ELSE "children"

\* What ProtectedRoute returns for the hook state (l, u)
ProtectedRouteRender(l, u) ==
  IF Bypassed THEN "children"
  ELSE IF l THEN "loading"
  ELSE IF u = NoUser THEN "null"
  ELSE "children"

\* ProtectedRoute's effect: router.push("/login")
ProtectedRouteEffect(l, u) == ~Bypassed /\ ~l /\ u = NoUser

\* A render of the mounted page with hook state (l, u), and its effects
Rerender(l, u) ==
  IF page = "/dashboard"
  THEN /\ view' = ProtectedRouteRender(l, u)
       /\ pushPending' = (pushPending \/ ProtectedRouteEffect(l, u))
  ELSE UNCHANGED <<view, pushPending>>

\* A page load (typed URL, reload, window.location.href = p): every
\* component state starts over, sessionStorage and Firebase's persistence stay
LoadPage(p, cause) ==
  /\ page' = p
  /\ redirect' = cause
  /\ mounted' = FALSE
  /\ listening' = "no"
  /\ currentUser' = NoUser
  /\ user' = NoUser
  /\ loading' = TRUE
  /\ idToken' = NoToken
  /\ pendingTok' = <<>>
  /\ view' = IF p = "/dashboard" THEN ProtectedRouteRender(TRUE, NoUser)
             ELSE "unmounted"
  /\ pushPending' = FALSE
  /\ inflight' = 0

\* The user opens or reloads a page
OpenPage ==
  /\ UNCHANGED notAuth
  /\ \E p \in {"/dashboard", "/login"} :
       /\ (page = "none" \/ page = p)
       /\ LoadPage(p, "user")
  /\ UNCHANGED <<nodeEnv, variant, devLoggedIn, fbPersisted, requests>>

\* useAuth's mount effect
UseAuthMount ==
  /\ UNCHANGED notAuth
  /\ page # "none"
  /\ ~mounted
  /\ mounted' = TRUE
  /\ IF isDevelopment
     THEN /\ user' = IF devLoggedIn THEN MockUid ELSE NoUser
          /\ idToken' = IF devLoggedIn THEN MockToken ELSE NoToken
          /\ loading' = FALSE
          /\ UNCHANGED listening
     ELSE /\ listening' = "registered"
          /\ UNCHANGED <<user, idToken, loading>>
  /\ Rerender(loading', user')
  /\ UNCHANGED <<nodeEnv, variant, devLoggedIn, fbPersisted, currentUser, page,
                 pendingTok, redirect, requests, inflight>>

\* The synchronous start of the onAuthStateChanged callback for user u
AuthCallback(u) ==
  /\ user' = u
  /\ IF u # NoUser
     THEN /\ pendingTok' = Append(pendingTok, u)
          /\ UNCHANGED <<idToken, loading>>
     ELSE /\ idToken' = NoToken
          /\ loading' = FALSE
          /\ UNCHANGED pendingTok
  /\ Rerender(loading', user')

\* Firebase has restored its state after the page load and calls the observer
AuthReady ==
  /\ UNCHANGED notAuth
  /\ listening = "registered"
  /\ Len(pendingTok) < MaxPending
  /\ listening' = "ready"
  /\ currentUser' = fbPersisted
  /\ AuthCallback(fbPersisted)
  /\ UNCHANGED <<nodeEnv, variant, devLoggedIn, fbPersisted, page, mounted,
                 redirect, requests, inflight>>

\* Firebase restores its state on a page that registered no observer
\* (development mode)
AuthRestore ==
  /\ UNCHANGED notAuth
  /\ page # "none"
  /\ listening = "no"
  /\ mounted
  /\ currentUser # fbPersisted
  /\ currentUser' = fbPersisted
  /\ UNCHANGED <<nodeEnv, variant, devLoggedIn, fbPersisted, page, mounted,
                 listening, user, loading, idToken, pendingTok, view,
                 pushPending, redirect, requests, inflight>>

\* The awaited getIdToken(user) of the callback returns: the token, or null
\* when user.getIdToken() threw
TokenResolve ==
  /\ UNCHANGED notAuth
  /\ pendingTok # <<>>
  /\ \E i \in 1..Len(pendingTok), ok \in BOOLEAN :
       /\ idToken' = IF ok THEN FirebaseToken(pendingTok[i]) ELSE NoToken
       /\ pendingTok' = [j \in 1..(Len(pendingTok) - 1) |->
                           IF j < i THEN pendingTok[j] ELSE pendingTok[j + 1]]
  /\ loading' = FALSE
  /\ Rerender(loading', user)
  /\ UNCHANGED <<nodeEnv, variant, devLoggedIn, fbPersisted, currentUser, page,
                 mounted, listening, user, redirect, requests, inflight>>

\* router.push("/login") takes effect: client-side navigation, the login page
\* mounts its own useAuth
RouterPush ==
  /\ UNCHANGED notAuth
  /\ pushPending
  /\ page' = "/login"
  /\ redirect' = "ProtectedRoute"
  /\ mounted' = FALSE
  /\ listening' = "no"
  /\ user' = NoUser
  /\ loading' = TRUE
  /\ idToken' = NoToken
  /\ pendingTok' = <<>>
  /\ view' = "unmounted"
  /\ pushPending' = FALSE
  /\ inflight' = 0
  /\ UNCHANGED <<nodeEnv, variant, devLoggedIn, fbPersisted, currentUser,
                 requests>>

\* apiClient's request interceptor: the Authorization header it sets
RequestHeader(cu, tokenOk) ==
  IF cu # NoUser /\ tokenOk THEN <<"Bearer", FirebaseToken(cu)>> ELSE NoHeader

\* A page under /dashboard calls the API through apiClient
SendRequest ==
  /\ UNCHANGED notAuth
  /\ page = "/dashboard"
  /\ inflight < MaxInflight
  /\ \E tokenOk \in BOOLEAN :
       requests' = requests \cup
         {[user |-> user, header |-> RequestHeader(currentUser, tokenOk)]}
  /\ inflight' = inflight + 1
  /\ UNCHANGED <<nodeEnv, variant, devLoggedIn, fbPersisted, currentUser, page,
                 mounted, listening, user, loading, idToken, pendingTok, view,
                 pushPending, redirect>>

\* apiClient's response interceptor on an answer with the given status
Respond ==
  /\ UNCHANGED notAuth
  /\ inflight > 0
  /\ \E status \in {200, 401, 500} :
       IF status = 401 /\ ~isDevelopment
       THEN /\ LoadPage("/login", "interceptor401")
            /\ UNCHANGED <<nodeEnv, variant, devLoggedIn, fbPersisted, requests>>
       ELSE /\ inflight' = inflight - 1
            /\ UNCHANGED <<nodeEnv, variant, devLoggedIn, fbPersisted,
                           currentUser, page, mounted, listening, user, loading,
                           idToken, pendingTok, view, pushPending, redirect,
                           requests>>

\* A devLogin without the NODE_ENV test
devLoginAnyEnv == devLoggedIn' = TRUE

\* lib/auth devLogin(): what it does to sessionStorage
devLogin ==
  IF isDevelopment THEN devLoggedIn' = TRUE ELSE UNCHANGED devLoggedIn

\* LoginPage.handleDevLogin: the button exists in development mode only
handleDevLogin ==
  /\ UNCHANGED notAuthDev
  /\ sessionOp' = "devLogin"
  /\ UNCHANGED devLoginResult
  /\ page = "/login"
  /\ mounted /\ ~loading /\ user = NoUser
  /\ isDevelopment
  /\ devLogin
  /\ LoadPage("/dashboard", "user")
  /\ UNCHANGED <<nodeEnv, variant, fbPersisted, requests>>

\* lib/auth devLogin(): what it returns
devLoginReturn == IF isDevelopment THEN "user" ELSE "error"

\* devLogin() called in a build that is not the development build, where no
\* button calls it
devLoginCall ==
  /\ UNCHANGED notAuthDev
  /\ ~isDevelopment
  /\ page # "none"
  /\ devLogin
  /\ devLoginResult' = devLoginReturn
  /\ sessionOp' = "devLogin"
  /\ UNCHANGED <<nodeEnv, variant, fbPersisted, currentUser, page, mounted,
                 listening, user, loading, idToken, pendingTok, view,
                 pushPending, redirect, requests, inflight>>

\* A signOut without the development branch
signOutFirebaseOnly == fbPersisted' = NoUser /\ UNCHANGED devLoggedIn

\* lib/auth signOut()
signOut ==
  IF isDevelopment
  THEN /\ devLoggedIn' = FALSE
       /\ UNCHANGED fbPersisted
  ELSE /\ fbPersisted' = NoUser
       /\ UNCHANGED devLoggedIn

\* LoginPage.handleLogout (reload) and AppLayout.handleSignOut (to /login)
handleSignOut ==
  /\ UNCHANGED notAuthDev
  /\ sessionOp' = "signOut"
  /\ UNCHANGED devLoginResult
  /\ \/ page = "/login" /\ mounted /\ ~loading /\ user # NoUser
     \/ page = "/dashboard" /\ view = "children"
  /\ signOut
  /\ LoadPage("/login", "user")
  /\ UNCHANGED <<nodeEnv, variant, requests>>

\* LoginPage.handleGoogleLogin, signInWithGoogle succeeding for user u
handleGoogleLogin ==
  /\ UNCHANGED notAuth
  /\ page = "/login"
  /\ mounted /\ ~loading /\ user = NoUser
  /\ \E u \in FirebaseUsers :
       /\ fbPersisted' = u
       /\ currentUser' = u
  /\ page' = "/dashboard"
  /\ redirect' = "user"
  /\ mounted' = FALSE
  /\ listening' = "no"
  /\ user' = NoUser
  /\ loading' = TRUE
  /\ idToken' = NoToken
  /\ pendingTok' = <<>>
  /\ view' = ProtectedRouteRender(TRUE, NoUser)
  /\ pushPending' = FALSE
  /\ inflight' = 0
  /\ UNCHANGED <<nodeEnv, variant, devLoggedIn, requests>>

\* Firebase reports a sign-out made elsewhere (another tab, a revoked
\* account) to the registered observer
RemoteSignOut ==
  /\ UNCHANGED notAuth
  /\ listening = "ready"
  /\ currentUser # NoUser
  /\ fbPersisted' = NoUser
  /\ currentUser' = NoUser
  /\ AuthCallback(NoUser)
  /\ UNCHANGED <<nodeEnv, variant, devLoggedIn, page, mounted, listening,
                 redirect, requests, inflight>>

\* Firebase reports a sign-in made elsewhere (another tab sharing the
\* persistence) to the registered observer
RemoteSignIn ==
  /\ UNCHANGED notAuth
  /\ listening = "ready"
  /\ currentUser = NoUser
  /\ Len(pendingTok) < MaxPending
  /\ \E u \in FirebaseUsers :
       /\ fbPersisted' = u
       /\ currentUser' = u
       /\ AuthCallback(u)
  /\ UNCHANGED <<nodeEnv, variant, devLoggedIn, page, mounted, listening,
                 redirect, requests, inflight>>

AuthInit ==
  /\ nodeEnv \in {"development", "production"}
  /\ variant \in {"plain", "bypass"}
  /\ devLoggedIn = FALSE
  /\ fbPersisted \in FirebaseUsers \cup {NoUser}
  /\ currentUser = NoUser
  /\ page = "none"
  /\ mounted = FALSE
  /\ listening = "no"
  /\ user = NoUser
  /\ loading = TRUE
  /\ idToken = NoToken
  /\ pendingTok = <<>>
  /\ view = "unmounted"
  /\ pushPending = FALSE
  /\ redirect = "none"
  /\ requests = {}
  /\ inflight = 0

AuthNext ==
  \/ OpenPage
  \/ UseAuthMount
  \/ AuthReady
  \/ AuthRestore
  \/ TokenResolve
  \/ RouterPush
  \/ SendRequest
  \/ Respond
  \/ handleDevLogin
  \/ devLoginCall
  \/ handleSignOut
  \/ handleGoogleLogin
  \/ RemoteSignOut
  \/ RemoteSignIn

----------------------------------------------------------------------------
\* Backend: routes, get_current_user, AI factory

Users == {"u1", "u2"}
Tokens == {"token-u1", "token-u2", "expired", "missing"}
PublicEndpoints == {"GET /", "GET /health", "GET /api/health"}
PyNone == "<None>"
Providers == {PyNone, "", "gpt", "gemini", "claude", "GPT"}
QueryProviders == {PyNone, "gemini", "claude"}

\* Firebase Admin verify_id_token: the uid of a valid token
verify_id_token(t) ==
  IF t = "token-u1" THEN "u1" ELSE IF t = "token-u2" THEN "u2" ELSE NoUser

\* get_current_user: the caller's uid, or "null" where it raises 401
\* A dependency that lets an expired token through
get_current_user_lenient(t) == IF t = "expired" THEN "u1" ELSE verify_id_token(t)

get_current_user(t) == verify_id_token(t)

\* Python truthiness of an Optional[str]
Truthy(p) == p # PyNone /\ p # ""

\* The factory without its else branch
get_ai_service_no_else(provider) ==
  LET resolved == IF Truthy(provider) THEN provider ELSE defaultProvider
  IN  IF resolved = "gpt" THEN [resolved |-> resolved, result |-> "GPTService"]
      ELSE IF resolved = "gemini"
           THEN [resolved |-> resolved, result |-> "GeminiService"]
      ELSE [resolved |-> resolved, result |-> "None"]

\* get_ai_service(provider)
get_ai_service(provider) ==
  LET resolved == IF Truthy(provider) THEN provider ELSE defaultProvider
  IN  IF resolved = "gpt" THEN [resolved |-> resolved, result |-> "GPTService"]
      ELSE IF resolved = "gemini"
           THEN [resolved |-> resolved, result |-> "GeminiService"]
      ELSE [resolved |-> resolved, result |-> "ValueError"]

\* get_ai_service_dependency(ai_provider = Query(None))
get_ai_service_dependency(ai_provider) == get_ai_service(ai_provider)

\* A provider name that does not depend on the implementation
provider_name_fixed(service) == "gpt"

\* AIServiceInterface.provider_name of the two implementations
provider_name(service) == IF service = "GPTService" THEN "gpt" ELSE "gemini"

StoragePath(uid, fid) == <<"pdfs", uid, fid>>

Unauthorized(endpoint, t) ==
  /\ resp' = [endpoint |-> endpoint, token |-> t, status |-> 401, body |-> {}]
  /\ UNCHANGED <<defaultProvider, pdfs, storage, exams, nextFile, nextExam>>

\* GET /, GET /health, GET /api/health
PublicRoute ==
  /\ UNCHANGED notBackend
  /\ \E endpoint \in PublicEndpoints, t \in Tokens :
       /\ resp' = [endpoint |-> endpoint, token |-> t, status |-> 200, body |-> {}]
       /\ UNCHANGED <<defaultProvider, pdfs, storage, exams, nextFile, nextExam>>

\* POST /api/pdf/upload
upload_pdf ==
  /\ UNCHANGED notBackend
  /\ \E t \in Tokens :
       LET uid == get_current_user(t) IN
       IF uid = NoUser THEN Unauthorized("POST /api/pdf/upload", t)
       ELSE /\ nextFile < MaxFiles
            /\ nextFile' = nextFile + 1
            /\ pdfs' = [pdfs EXCEPT ![uid] = @ \cup {nextFile + 1}]
            /\ storage' = storage \cup {StoragePath(uid, nextFile + 1)}
            /\ resp' = [endpoint |-> "POST /api/pdf/upload", token |-> t,
                        status |-> 200,
                        body |-> {<<"pdf", uid, nextFile + 1>>}]
            /\ UNCHANGED <<defaultProvider, exams, nextExam>>

\* The PDFs a route called by uid can see under file id fid
\* A lookup by file id alone
pdf_lookup_global(uid, fid) ==
  {<<"pdf", u, fid>> : u \in {v \in Users : fid \in pdfs[v]}}

pdf_lookup(uid, fid) == IF fid \in pdfs[uid] THEN {<<"pdf", uid, fid>>} ELSE {}

\* GET /api/pdf/{file_id}/download
download_pdf ==
  /\ UNCHANGED notBackend
  /\ \E t \in Tokens, fid \in 1..MaxFiles :
       LET uid == get_current_user(t) IN
       IF uid = NoUser THEN Unauthorized("GET /api/pdf/{file_id}/download", t)
       ELSE /\ resp' = [endpoint |-> "GET /api/pdf/{file_id}/download",
                        token |-> t,
                        status |-> IF pdf_lookup(uid, fid) = {} THEN 404 ELSE 200,
                        body |-> pdf_lookup(uid, fid)]
            /\ UNCHANGED <<defaultProvider, pdfs, storage, exams, nextFile,
                           nextExam>>

\* GET /api/pdf/list
list_pdfs ==
  /\ UNCHANGED notBackend
  /\ \E t \in Tokens :
       LET uid == get_current_user(t) IN
       IF uid = NoUser THEN Unauthorized("GET /api/pdf/list", t)
       ELSE /\ resp' = [endpoint |-> "GET /api/pdf/list", token |-> t,
                        status |-> 200,
                        body |-> UNION {pdf_lookup(uid, fid) : fid \in 1..MaxFiles}]
            /\ UNCHANGED <<defaultProvider, pdfs, storage, exams, nextFile,
                           nextExam>>

\* DELETE /api/pdf/{file_id}
delete_pdf ==
  /\ UNCHANGED notBackend
  /\ \E t \in Tokens, fid \in 1..MaxFiles :
       LET uid == get_current_user(t)
           found == IF uid = NoUser THEN {} ELSE pdf_lookup(uid, fid)
       IN
       IF uid = NoUser THEN Unauthorized("DELETE /api/pdf/{file_id}", t)
       ELSE /\ pdfs' = [u \in Users |->
                          pdfs[u] \ {x[3] : x \in {y \in found : y[2] = u}}]
            /\ storage' = storage \ {StoragePath(x[2], x[3]) : x \in found}
            /\ resp' = [endpoint |-> "DELETE /api/pdf/{file_id}", token |-> t,
                        status |-> IF found = {} THEN 404 ELSE 200,
                        body |-> found]
            /\ UNCHANGED <<defaultProvider, exams, nextFile, nextExam>>

\* The body of POST /api/exam/generate for an authenticated caller
generate_exam(t, uid, fid, ai_provider) ==
  LET ai_service == get_ai_service_dependency(ai_provider) IN
  /\ IF ai_service.result = "ValueError"
     THEN /\ resp' = [endpoint |-> "POST /api/exam/generate", token |-> t,
                      status |-> 500, body |-> {}]
          /\ UNCHANGED <<exams, nextExam>>
     ELSE IF pdf_lookup(uid, fid) = {}
     THEN /\ resp' = [endpoint |-> "POST /api/exam/generate", token |-> t,
                      status |-> 404, body |-> {}]
          /\ UNCHANGED <<exams, nextExam>>
     ELSE /\ nextExam < MaxExams
          /\ nextExam' = nextExam + 1
          /\ exams' = [exams EXCEPT ![uid] = @ \cup
                        {[exam_id |-> nextExam + 1, pdf_id |-> fid,
                          generated_by |-> ai_service.result,
                          ai_provider |-> provider_name(ai_service.result)]}]
          /\ resp' = [endpoint |-> "POST /api/exam/generate", token |-> t,
                      status |-> 200,
                      body |-> {<<"exam", uid, nextExam + 1>>}]
  /\ UNCHANGED <<defaultProvider, pdfs, storage, nextFile>>

\* POST /api/exam/generate?ai_provider=...
generate_exam_route ==
  /\ UNCHANGED notBackend
  /\ \E t \in Tokens, fid \in 1..MaxFiles, ai_provider \in QueryProviders :
       LET uid == get_current_user(t) IN
       IF uid = NoUser THEN Unauthorized("POST /api/exam/generate", t)
       ELSE generate_exam(t, uid, fid, ai_provider)

\* The exams a route called by uid can see under exam id eid
exam_lookup(uid, eid) ==
  {<<"exam", uid, e.exam_id>> : e \in {x \in exams[uid] : x.exam_id = eid}}

\* GET /api/exam/{exam_id}
get_exam ==
  /\ UNCHANGED notBackend
  /\ \E t \in Tokens, eid \in 1..MaxExams :
       LET uid == get_current_user(t) IN
       IF uid = NoUser THEN Unauthorized("GET /api/exam/{exam_id}", t)
       ELSE /\ resp' = [endpoint |-> "GET /api/exam/{exam_id}", token |-> t,
                        status |-> IF exam_lookup(uid, eid) = {} THEN 404 ELSE 200,
                        body |-> exam_lookup(uid, eid)]
            /\ UNCHANGED <<defaultProvider, pdfs, storage, exams, nextFile,
                           nextExam>>

\* GET /api/exam/list
list_exams ==
  /\ UNCHANGED notBackend
  /\ \E t \in Tokens :
       LET uid == get_current_user(t) IN
       IF uid = NoUser THEN Unauthorized("GET /api/exam/list", t)
       ELSE /\ resp' = [endpoint |-> "GET /api/exam/list", token |-> t,
                        status |-> 200,
                        body |-> UNION {exam_lookup(uid, eid) : eid \in 1..MaxExams}]
            /\ UNCHANGED <<defaultProvider, pdfs, storage, exams, nextFile,
                           nextExam>>

\* DEFAULT_AI_PROVIDER: gpt or gemini
DefaultProviders == {"gpt", "gemini"}

\* An empty database
BackendEmpty ==
  /\ pdfs = [u \in Users |-> {}]
  /\ storage = {}
  /\ exams = [u \in Users |-> {}]
  /\ nextFile = 0
  /\ nextExam = 0
  /\ resp = [endpoint |-> "none", token |-> "missing", status |-> 0, body |-> {}]

BackendInit ==
  /\ defaultProvider \in DefaultProviders
  /\ BackendEmpty

BackendNext ==
  \/ PublicRoute
  \/ upload_pdf
  \/ download_pdf
  \/ list_pdfs
  \/ delete_pdf
  \/ generate_exam_route
  \/ get_exam
  \/ list_exams

\* A direct call get_ai_service(provider)
CallFactory ==
  /\ UNCHANGED notFactory
  /\ \E provider \in Providers :
       calls' = calls \cup
         {[provider |-> provider, result |-> get_ai_service(provider).result]}

FactoryNext == CallFactory

----------------------------------------------------------------------------
\* Browser: GenerateExamPage

NumQuestionsChoices == {1, 10, 50}
Difficulties == {"easy", "medium", "hard"}
FormProviders == {"gpt", "gemini"}
NoCall == <<>>

\* useState<ExamGenerationRequest>({...})
InitialFormData ==
  [pdf_id |-> 1, num_questions |-> 10, difficulty |-> "medium",
   ai_provider |-> "gpt"]

\* The range input's onChange
setNumQuestions ==
  /\ UNCHANGED notForm
  /\ ~formLoading
  /\ \E n \in NumQuestionsChoices :
       formData' = [formData EXCEPT !.num_questions = n]
  /\ UNCHANGED <<formLoading, formSent, formOutcome, backendVars>>

\* The difficulty Select's onValueChange
setDifficulty ==
  /\ UNCHANGED notForm
  /\ ~formLoading
  /\ \E d \in Difficulties :
       formData' = [formData EXCEPT !.difficulty = d]
  /\ UNCHANGED <<formLoading, formSent, formOutcome, backendVars>>

\* The AI provider Select's onValueChange
setAiProvider ==
  /\ UNCHANGED notForm
  /\ ~formLoading
  /\ \E value \in FormProviders :
       formData' = [formData EXCEPT !.ai_provider = value]
  /\ UNCHANGED <<formLoading, formSent, formOutcome, backendVars>>

\* GenerateExamPage.handleSubmit up to the awaited generateExam call
formHandleSubmit ==
  /\ UNCHANGED notForm
  /\ ~formLoading
  /\ formLoading' = TRUE
  /\ formSent' = <<formData>>
  /\ UNCHANGED <<formData, formOutcome, backendVars>>

\* lib/api/exams generateExam: the ai_provider query parameter of its
\* POST /api/exam/generate request
generateExamQuery(data) == data.ai_provider

\* The backend answers the generateExam call; handleSubmit resumes
formGenerateDone ==
  /\ UNCHANGED notForm
  /\ formSent # NoCall
  /\ generate_exam("token-u1", "u1", formSent[1].pdf_id,
                   generateExamQuery(formSent[1]))
  /\ formOutcome' = [chosen |-> formSent[1].ai_provider,
                     status |-> resp'.status,
                     exam |-> exams'["u1"] \ exams["u1"]]
  /\ formSent' = NoCall
  /\ formLoading' = FALSE
  /\ UNCHANGED formData

\* The generateExam call fails without a response; handleSubmit's catch
formGenerateFail ==
  /\ UNCHANGED notForm
  /\ formSent # NoCall
  /\ formOutcome' = [chosen |-> formSent[1].ai_provider, status |-> 0,
                     exam |-> {}]
  /\ formSent' = NoCall
  /\ formLoading' = FALSE
  /\ UNCHANGED <<formData, backendVars>>

FormInit ==
  /\ formData = InitialFormData
  /\ formLoading = FALSE
  /\ formSent = NoCall
  /\ formOutcome = [chosen |-> "none", status |-> 0, exam |-> {}]

FormNext ==
  \/ setNumQuestions
  \/ setDifficulty
  \/ setAiProvider
  \/ formHandleSubmit
  \/ formGenerateDone
  \/ formGenerateFail

----------------------------------------------------------------------------
\* Browser: SubjectDetailPage, PDF upload

\* MAX_FILE_SIZE of the backend configuration
DocMaxFileSize == 16777216

FileTypes == {"application/pdf", "image/png", ""}
FileSizes == {0, 16777216, 16777217}
Files == [type : FileTypes, size : FileSizes]
NoFile == [type |-> "none", size |-> 0]

\* The two tests of handleFileUpload, type only
fileAcceptedByType(file) == file.type = "application/pdf"

\* The two tests of handleFileUpload
fileAccepted(file) ==
  /\ ~(file.type # "application/pdf")
  /\ ~(file.size > 16 * 1024 * 1024)

\* Remove the i-th element of a sequence
RemoveAt(seq, i) == [j \in 1..(Len(seq) - 1) |-> IF j < i THEN seq[j] ELSE seq[j + 1]]

\* loadData up to its awaited Promise.all
StartLoad(ls) == Append(ls, [served |-> FALSE, snap |-> {}])

\* The server answers getSubject and getPDFs of one loadData call
serveLoad ==
  /\ UNCHANGED notUpload
  /\ \E i \in 1..Len(loads) :
       /\ ~loads[i].served
       /\ loads' = [loads EXCEPT ![i] = [served |-> TRUE, snap |-> srvPdfs]]
  /\ upEvent' = [handler |-> "server", file |-> NoFile]
  /\ UNCHANGED <<srvPdfs, pagePdfs, subject, pageLoading, uploading,
                 uploadCall, uploadsSent, deleteCall, upNextId, reqFailed>>

\* loadData after its await: the try branch
loadDataOk ==
  /\ UNCHANGED notUpload
  /\ \E i \in 1..Len(loads) :
       /\ loads[i].served
       /\ subject' = TRUE
       /\ pagePdfs' = loads[i].snap
       /\ loads' = RemoveAt(loads, i)
  /\ pageLoading' = FALSE
  /\ upEvent' = [handler |-> "loadData", file |-> NoFile]
  /\ UNCHANGED <<srvPdfs, uploading, uploadCall, uploadsSent, deleteCall,
                 upNextId, reqFailed>>

\* loadData after its await: the catch branch
loadDataFail ==
  /\ UNCHANGED notUpload
  /\ \E i \in 1..Len(loads) : loads' = RemoveAt(loads, i)
  /\ pagePdfs' = {}
  /\ pageLoading' = FALSE
  /\ upEvent' = [handler |-> "loadData", file |-> NoFile]
  /\ reqFailed' = TRUE
  /\ UNCHANGED <<srvPdfs, subject, uploading, uploadCall, uploadsSent,
                 deleteCall, upNextId>>

\* handleFileUpload up to its awaited uploadPDF call
handleFileUpload ==
  /\ UNCHANGED notUpload
  /\ ~pageLoading /\ subject /\ ~uploading
  /\ \E file \in Files :
       /\ upEvent' = [handler |-> "handleFileUpload", file |-> file]
       /\ IF fileAccepted(file)
          THEN /\ uploading' = TRUE
               /\ uploadCall' = <<file>>
               /\ uploadsSent' = uploadsSent \cup {file}
          ELSE UNCHANGED <<uploading, uploadCall, uploadsSent>>
  /\ UNCHANGED <<srvPdfs, pagePdfs, subject, pageLoading, loads, deleteCall,
                 upNextId, reqFailed>>

\* handleFileUpload after its await: the try branch and finally
uploadOk ==
  /\ UNCHANGED notUpload
  /\ uploadCall # NoCall
  /\ upNextId < MaxUploads
  /\ Len(loads) < MaxLoads
  /\ upNextId' = upNextId + 1
  /\ srvPdfs' = srvPdfs \cup {upNextId + 1}
  /\ loads' = StartLoad(loads)
  /\ uploading' = FALSE
  /\ uploadCall' = NoCall
  /\ upEvent' = [handler |-> "uploadPDF", file |-> uploadCall[1]]
  /\ UNCHANGED <<pagePdfs, subject, pageLoading, uploadsSent, deleteCall,
                 reqFailed>>

\* handleFileUpload after its await: the catch branch and finally
uploadFail ==
  /\ UNCHANGED notUpload
  /\ uploadCall # NoCall
  /\ uploading' = FALSE
  /\ uploadCall' = NoCall
  /\ upEvent' = [handler |-> "uploadPDF", file |-> uploadCall[1]]
  /\ UNCHANGED <<srvPdfs, pagePdfs, subject, pageLoading, uploadsSent, loads,
                 deleteCall, upNextId, reqFailed>>

\* handleDeletePDF up to its awaited deletePDF call, for the PDF chosen with
\* the delete button; the handler sees the pdfs of the render it was made in
handleDeletePDF ==
  /\ UNCHANGED notUpload
  /\ ~pageLoading /\ subject
  /\ deleteCall = NoCall
  /\ \E pdfToDelete \in pagePdfs :
       deleteCall' = <<[file_id |-> pdfToDelete, pdfs |-> pagePdfs,
                        served |-> FALSE]>>
  /\ upEvent' = [handler |-> "handleDeletePDF", file |-> NoFile]
  /\ UNCHANGED <<srvPdfs, pagePdfs, subject, pageLoading, uploading,
                 uploadCall, uploadsSent, loads, upNextId, reqFailed>>

\* The server deletes the PDF
serveDelete ==
  /\ UNCHANGED notUpload
  /\ deleteCall # NoCall
  /\ ~deleteCall[1].served
  /\ deleteCall[1].file_id \in srvPdfs
  /\ srvPdfs' = srvPdfs \ {deleteCall[1].file_id}
  /\ deleteCall' = <<[deleteCall[1] EXCEPT !.served = TRUE]>>
  /\ upEvent' = [handler |-> "server", file |-> NoFile]
  /\ UNCHANGED <<pagePdfs, subject, pageLoading, uploading, uploadCall,
                 uploadsSent, loads, upNextId, reqFailed>>

\* handleDeletePDF after its await: the try branch and finally
deleteOk ==
  /\ UNCHANGED notUpload
  /\ deleteCall # NoCall
  /\ deleteCall[1].served
  /\ pagePdfs' = {f \in deleteCall[1].pdfs : f # deleteCall[1].file_id}
  /\ deleteCall' = NoCall
  /\ upEvent' = [handler |-> "deletePDF", file |-> NoFile]
  /\ UNCHANGED <<srvPdfs, subject, pageLoading, uploading, uploadCall,
                 uploadsSent, loads, upNextId, reqFailed>>

\* handleDeletePDF after its await: the catch branch and finally
deleteFail ==
  /\ UNCHANGED notUpload
  /\ deleteCall # NoCall
  /\ deleteCall' = NoCall
  /\ reqFailed' = TRUE
  /\ upEvent' = [handler |-> "deletePDF", file |-> NoFile]
  /\ UNCHANGED <<srvPdfs, pagePdfs, subject, pageLoading, uploading,
                 uploadCall, uploadsSent, loads, upNextId>>

\* SubjectDetailPage after its first render and its mount effect, for a
\* subject with no PDF or with one
UploadInit ==
  /\ srvPdfs \in {{}, {1}}
  /\ deleteCall = NoCall
  /\ upNextId = Cardinality(srvPdfs)
  /\ reqFailed = FALSE
  /\ pagePdfs = {}
  /\ subject = FALSE
  /\ pageLoading = TRUE
  /\ uploading = FALSE
  /\ uploadCall = NoCall
  /\ uploadsSent = {}
  /\ loads = StartLoad(<<>>)
  /\ upEvent = [handler |-> "mount", file |-> NoFile]

UploadIdle ==
  /\ srvPdfs = {}
  /\ deleteCall = NoCall
  /\ upNextId = 0
  /\ reqFailed = FALSE
  /\ pagePdfs = {}
  /\ subject = FALSE
  /\ pageLoading = TRUE
  /\ uploading = FALSE
  /\ uploadCall = NoCall
  /\ uploadsSent = {}
  /\ loads = <<>>
  /\ upEvent = [handler |-> "none", file |-> NoFile]

UploadNext ==
  \/ serveLoad
  \/ loadDataOk
  \/ loadDataFail
  \/ handleFileUpload
  \/ uploadOk
  \/ uploadFail
  \/ handleDeletePDF
  \/ serveDelete
  \/ deleteOk
  \/ deleteFail

----------------------------------------------------------------------------
\* Browser: ExamPage

ExamIds == {"e1", "e2"}
NoExam == "none"
AnswerTexts == {"", "a", "b"}

\* The questions getExam returns for an exam
QuestionsOf(e) == IF e = "e1" THEN 1..MaxQuestions ELSE {1}

\* useState<Record<number, string>>({})
NoAnswers == [q \in {} |-> ""]

\* An absent localStorage item (getItem gives null)
NoItem == [present |-> FALSE, value |-> <<>>]

\* A property name of a JavaScript object: the decimal string of the number
PropertyName(q) == ToString(q)

\* The number a property name stands for
PropertyIndex(key) == CHOOSE q \in 1..(MaxQuestions + 1) : ToString(q) = key

RECURSIVE StringifyFrom(_, _)
StringifyFrom(obj, keys) ==
  IF keys = {} THEN <<>>
  ELSE LET k == CHOOSE x \in keys : \A y \in keys : x <= y
       IN  <<<<PropertyName(k), obj[k]>>>> \o StringifyFrom(obj, keys \ {k})

\* JSON.stringify that leaves out empty answers
JSONstringifySkipEmpty(obj) ==
  StringifyFrom(obj, {k \in DOMAIN obj : obj[k] # ""})

\* JSON.stringify of an answers object: its members in ascending key order
JSONstringify(obj) == StringifyFrom(obj, DOMAIN obj)

\* JSON.parse of a stored item: the last member of a name wins
JSONparse(text) ==
  [q \in {PropertyIndex(text[i][1]) : i \in 1..Len(text)} |->
     LET last == CHOOSE i \in 1..Len(text) :
                   /\ PropertyIndex(text[i][1]) = q
                   /\ \A j \in 1..Len(text) :
                        PropertyIndex(text[j][1]) = q => j <= i
     IN  text[last][2]]

\* The localStorage key exam_{examId}_answers
setItem(store, e, text) ==
  [store EXCEPT ![e] = [present |-> TRUE, value |-> text]]

removeItem(store, e) == [store EXCEPT ![e] = NoItem]

\* The auto-save effect, run after a render with the given exam and answers
AutoSave(store, e, loaded, ans) ==
  IF loaded THEN setItem(store, e, JSONstringify(ans)) ELSE store

\* loadSavedAnswers: the answers state it leaves
loadSavedAnswers(store, e) ==
  IF store[e].present THEN JSONparse(store[e].value) ELSE NoAnswers

NoToast == [title |-> "", count |-> 0]

\* The page is opened: first render, then the mount effect (loadExam up to
\* its await, loadSavedAnswers) and the auto-save effect
OpenExamPage ==
  /\ UNCHANGED notExam
  /\ examId = NoExam
  /\ \E e \in ExamIds :
       /\ examId' = e
       /\ answers' = loadSavedAnswers(localStorage, e)
  /\ exam' = [loaded |-> FALSE, questions |-> {}]
  /\ examLoading' = TRUE
  /\ submitted' = FALSE
  /\ examFetch' = TRUE
  /\ localStorage' = AutoSave(localStorage, examId', FALSE, NoAnswers)
  /\ examEvent' = [handler |-> "mount", toast |-> NoToast]
  /\ UNCHANGED entered

\* loadExam after its await: the try branch, then the auto-save effect
loadExamOk ==
  /\ UNCHANGED notExam
  /\ examId # NoExam /\ examFetch
  /\ examFetch' = FALSE
  /\ exam' = [loaded |-> TRUE, questions |-> QuestionsOf(examId)]
  /\ examLoading' = FALSE
  /\ localStorage' = AutoSave(localStorage, examId, TRUE, answers)
  /\ examEvent' = [handler |-> "loadExam", toast |-> NoToast]
  /\ UNCHANGED <<examId, answers, submitted, entered>>

\* loadExam after its await: the catch branch
loadExamFail ==
  /\ UNCHANGED notExam
  /\ examId # NoExam /\ examFetch
  /\ examFetch' = FALSE
  /\ examLoading' = FALSE
  /\ examEvent' = [handler |-> "loadExam",
                   toast |-> [title |-> "load failed", count |-> 0]]
  /\ UNCHANGED <<localStorage, examId, exam, answers, submitted, entered>>

\* The exam form is on screen
FormShown == examId # NoExam /\ ~examLoading /\ exam.loaded /\ ~submitted

\* handleAnswerChange(questionId, answer), then the auto-save effect
handleAnswerChange ==
  /\ UNCHANGED notExam
  /\ FormShown
  /\ \E questionId \in exam.questions, answer \in AnswerTexts :
       answers' = [q \in DOMAIN answers \cup {questionId} |->
                     IF q = questionId THEN answer ELSE answers[q]]
  /\ localStorage' = AutoSave(localStorage, examId, exam.loaded, answers')
  /\ entered' = [entered EXCEPT ![examId] = [present |-> TRUE, value |-> answers']]
  /\ examEvent' = [handler |-> "handleAnswerChange", toast |-> NoToast]
  /\ UNCHANGED <<examId, exam, examLoading, submitted, examFetch>>

\* A question counts as answered when its key is present
unansweredByKey(questions, ans) == {q \in questions : q \notin DOMAIN ans}

\* exam.questions.filter((q) => !answers[q.id])
unanswered(questions, ans) ==
  {q \in questions : q \notin DOMAIN ans \/ ans[q] = ""}

\* Object.keys(answers).length
answeredCount == Cardinality(DOMAIN answers)

\* An effect without a dependency array: it runs after every render
effectRunsEveryRender(deps, nextDeps) == TRUE

\* useEffect(..., deps): after a render the effect runs if a dependency changed
effectRuns(deps, nextDeps) == deps # nextDeps

\* handleSubmit, called from the submit button; setSubmitted(true) renders the
\* page again, with answers, examId and exam as they were
examHandleSubmit ==
  /\ UNCHANGED notExam
  /\ FormShown
  /\ ~(answeredCount = 0)
  /\ IF Cardinality(unanswered(exam.questions, answers)) > 0
     THEN /\ examEvent' =
               [handler |-> "handleSubmit",
                toast |-> [title |-> "unanswered",
                           count |-> Cardinality(unanswered(exam.questions,
                                                            answers))]]
          /\ UNCHANGED <<submitted, localStorage, entered>>
     ELSE /\ submitted' = TRUE
          /\ localStorage' =
               IF effectRuns(<<answers, examId, exam>>,
                             <<answers, examId, exam>>)
               THEN AutoSave(removeItem(localStorage, examId), examId,
                             exam.loaded, answers)
               ELSE removeItem(localStorage, examId)
          /\ entered' = [entered EXCEPT ![examId] = NoItem]
          /\ examEvent' = [handler |-> "handleSubmit",
                           toast |-> [title |-> "submitted", count |-> 0]]
  /\ UNCHANGED <<examId, exam, examLoading, answers, examFetch>>

\* The page is left: the component is unmounted and its state is gone
CloseExamPage ==
  /\ UNCHANGED notExam
  /\ examId # NoExam
  /\ examId' = NoExam
  /\ exam' = [loaded |-> FALSE, questions |-> {}]
  /\ examLoading' = TRUE
  /\ answers' = NoAnswers
  /\ submitted' = FALSE
  /\ examFetch' = FALSE
  /\ examEvent' = [handler |-> "unmount", toast |-> NoToast]
  /\ UNCHANGED <<localStorage, entered>>

\* No exam page open, nothing saved
ExamInit ==
  /\ localStorage = [e \in ExamIds |-> NoItem]
  /\ examId = NoExam
  /\ exam = [loaded |-> FALSE, questions |-> {}]
  /\ examLoading = TRUE
  /\ answers = NoAnswers
  /\ submitted = FALSE
  /\ examFetch = FALSE
  /\ examEvent = [handler |-> "none", toast |-> NoToast]
  /\ entered = [e \in ExamIds |-> NoItem]

ExamNext ==
  \/ OpenExamPage
  \/ loadExamOk
  \/ loadExamFail
  \/ handleAnswerChange
  \/ examHandleSubmit
  \/ CloseExamPage

----------------------------------------------------------------------------
\* Backend: GPTService model fallback

\* Model fallback: gpt-5, gpt-4.1, gpt-4o, gpt-4o-mini
FallbackModels == <<"gpt-5", "gpt-4.1", "gpt-4o", "gpt-4o-mini">>

NoRun == [active |-> FALSE, attempts |-> <<>>]

\* A fallback that goes from the first model straight to the last
NextModelShortcut(attempts) ==
  IF attempts = <<>> THEN FallbackModels[1]
  ELSE FallbackModels[Len(FallbackModels)]

\* The model to try after the given attempts
NextModel(attempts) == FallbackModels[Len(attempts) + 1]

\* The last model has been tried
Exhausted(attempts) == Len(attempts) >= Len(FallbackModels)

\* A request reaches GPTService
gptRequest ==
  /\ UNCHANGED notGpt
  /\ ~gptRun.active
  /\ gptRun' = [active |-> TRUE, attempts |-> <<>>]
  /\ UNCHANGED gptLog

\* One OpenAI call with the next model: it succeeds or throws
gptTryModel ==
  /\ UNCHANGED notGpt
  /\ gptRun.active
  /\ \E ok \in BOOLEAN :
       LET attempts == Append(gptRun.attempts,
                              [model |-> NextModel(gptRun.attempts), ok |-> ok])
       IN  IF ok
           THEN /\ gptLog' = gptLog \cup
                      {[attempts |-> attempts, result |-> "ok",
                        model |-> attempts[Len(attempts)].model]}
                /\ gptRun' = NoRun
           ELSE IF Exhausted(attempts)
           THEN /\ gptLog' = gptLog \cup
                      {[attempts |-> attempts, result |-> "failed",
                        model |-> "none"]}
                /\ gptRun' = NoRun
           ELSE /\ gptRun' = [active |-> TRUE, attempts |-> attempts]
                /\ UNCHANGED gptLog

GptIdle == gptRun = NoRun /\ gptLog = {}

GptNext ==
  \/ gptRequest
  \/ gptTryModel

----------------------------------------------------------------------------
\* scripts/dev.sh: its background jobs and the SIGINT trap

\* python main.py, npm run dev, the next dev process npm starts, tail -f
Jobs == {"backend", "frontend", "next", "tail"}

\* The statements of dev.sh from the trap on, in order
ShSteps == <<"checks", "trap", "backend", "sleep 2", "frontend", "sleep 3",
             "tail", "wait">>

StepAfter(pc) ==
  LET i == CHOOSE j \in 1..Len(ShSteps) : ShSteps[j] = pc
  IN  IF i < Len(ShSteps) THEN ShSteps[i + 1] ELSE "wait"

\* trap 'kill 0' SIGINT has been executed
TrapSet == shPc \notin {"checks", "trap", "dead"}

\* Both servers have been started
BothStarted == proc["backend"] # "none" /\ proc["frontend"] # "none"

\* A trap that kills the two servers by pid
KillServerPids == {j \in {"backend", "frontend"} : proc[j] = "running"}

\* kill 0: every process of the script's process group
KillZero == {j \in Jobs : proc[j] = "running"}

\* dev.sh executes its next statement; a pending trap runs first
shStep ==
  /\ UNCHANGED notSh
  /\ shPc \notin {"wait", "dead"}
  /\ ~sigint
  /\ shPc' = StepAfter(shPc)
  /\ proc' = IF shPc \in Jobs THEN [proc EXCEPT ![shPc] = "running"] ELSE proc
  /\ UNCHANGED <<sigint, term, sigintSeen>>

\* wait returns when every job has ended, and the script ends
shWaitDone ==
  /\ UNCHANGED notSh
  /\ shPc = "wait"
  /\ ~sigint
  /\ \A j \in Jobs \ {"next"} : proc[j] = "dead"
  /\ shPc' = "dead"
  /\ UNCHANGED <<proc, sigint, term, sigintSeen>>

\* npm run dev starts next dev, in the process group of the script; a
\* process with a signal pending does not fork
npmSpawn ==
  /\ UNCHANGED notSh
  /\ proc["frontend"] = "running"
  /\ "frontend" \notin term
  /\ proc["next"] = "none"
  /\ proc' = [proc EXCEPT !["next"] = "running"]
  /\ UNCHANGED <<shPc, sigint, term, sigintSeen>>

\* A job ends by itself
jobExit ==
  /\ UNCHANGED notSh
  /\ \E j \in Jobs :
       /\ proc[j] = "running"
       /\ proc' = [proc EXCEPT ![j] = "dead"]
       /\ term' = term \ {j}
  /\ UNCHANGED <<shPc, sigint, sigintSeen>>

\* Ctrl+C, or kill -INT of the script: dev.sh gets the SIGINT; a job, started
\* with & by a shell without job control, ignores it unless its program
\* installs a handler of its own, and then it ends
sendSigint ==
  /\ UNCHANGED notSh
  /\ shPc # "dead"
  /\ \E ended \in SUBSET {j \in Jobs : proc[j] = "running"} :
       /\ proc' = [j \in Jobs |-> IF j \in ended THEN "dead" ELSE proc[j]]
       /\ term' = term \ ended
  /\ IF TrapSet
     THEN sigint' = TRUE /\ UNCHANGED shPc
     ELSE shPc' = "dead" /\ UNCHANGED sigint
  /\ sigintSeen' = (sigintSeen \/ BothStarted)

\* The trap runs: kill 0 sends SIGTERM to the process group, the script
\* included, which ends
shTrap ==
  /\ UNCHANGED notSh
  /\ sigint /\ shPc # "dead"
  /\ term' = term \cup KillZero
  /\ shPc' = "dead"
  /\ sigint' = FALSE
  /\ UNCHANGED <<proc, sigintSeen>>

\* A job receives its SIGTERM and ends
jobTerm ==
  /\ UNCHANGED notSh
  /\ \E j \in term :
       /\ proc' = [proc EXCEPT ![j] = "dead"]
       /\ term' = term \ {j}
  /\ UNCHANGED <<shPc, sigint, sigintSeen>>

ShInit ==
  /\ shPc = "checks"
  /\ proc = [j \in Jobs |-> "none"]
  /\ sigint = FALSE
  /\ term = {}
  /\ sigintSeen = FALSE

ShIdle ==
  /\ shPc = "dead"
  /\ proc = [j \in Jobs |-> "none"]
  /\ sigint = FALSE
  /\ term = {}
  /\ sigintSeen = FALSE

ShNext ==
  \/ shStep
  \/ shWaitDone
  \/ npmSpawn
  \/ jobExit
  \/ sendSigint
  \/ shTrap
  \/ jobTerm

----------------------------------------------------------------------------
\* lib/api/client.ts: the response interceptor of apiClient

\* JavaScript values of the fields of a response body
Undefined == <<"undefined">>
Str(s) == <<"string", s>>
BodyFields == {Undefined, Str(""), Str("m"), Str("e")}

\* a || b picks a unless a is falsy: undefined or the empty string
JsOr(a, b) == IF a = Undefined \/ a = Str("") THEN b ELSE a

Statuses == {400, 401, 404, 500}

\* The errors axios rejects a call with: a response outside 2xx, a request
\* that got no response, or a failure before any request was made
AxiosErrors ==
  {[response |-> TRUE, request |-> TRUE, status |-> st,
    data |-> [message |-> dm, error |-> de], message |-> "Request failed"] :
      st \in Statuses, dm \in BodyFields, de \in BodyFields}
  \cup
  {[response |-> FALSE, request |-> rq, status |-> 0,
    data |-> [message |-> Undefined, error |-> Undefined], message |-> ms] :
      rq \in BOOLEAN, ms \in {"Network Error", "canceled"}}

NoApiError ==
  [response |-> FALSE, request |-> FALSE, status |-> 0,
   data |-> [message |-> Undefined, error |-> Undefined], message |-> "none"]

NoRejection == [message |-> "none", original |-> FALSE]

\* data.error || data.message || 'An error occurred'
serverMessageErrorFirst(data) ==
  JsOr(data.error, JsOr(data.message, Str("An error occurred")))[2]

\* data.message || data.error || 'An error occurred'
serverMessage(data) ==
  JsOr(data.message, JsOr(data.error, Str("An error occurred")))[2]

\* What the rejected handler of the response interceptor returns
rejected(error) ==
  IF error.response
  THEN [message |-> serverMessage(error.data), original |-> FALSE]
  ELSE IF error.request
  THEN [message |-> "No response from server", original |-> FALSE]
  ELSE [message |-> error.message, original |-> TRUE]

\* The pages that call the API
ApiPages == {"/dashboard", "/dashboard/subjects"}

\* One of these pages is open, calls an API function and awaits it
apiCall ==
  /\ UNCHANGED notApi
  /\ ~apiPending
  /\ apiPending' = TRUE
  /\ apiError' = NoApiError
  /\ apiRejection' = NoRejection
  /\ \E from \in ApiPages : windowLocation' = from

\* The call fails: the rejected handler of the response interceptor runs
responseRejected ==
  /\ UNCHANGED notApi
  /\ apiPending
  /\ \E error \in AxiosErrors :
       /\ apiError' = error
       /\ apiRejection' = rejected(error)
       /\ windowLocation' =
            IF error.response /\ error.status = 401 /\ ~isDevelopment
            THEN "/login"
            ELSE windowLocation
  /\ apiPending' = FALSE

\* The call succeeds: the fulfilled handler passes the response on
responseFulfilled ==
  /\ UNCHANGED notApi
  /\ apiPending
  /\ apiPending' = FALSE
  /\ UNCHANGED <<apiError, apiRejection, windowLocation>>

ApiIdle ==
  /\ apiPending = FALSE
  /\ apiError = NoApiError
  /\ apiRejection = NoRejection
  /\ windowLocation = "/dashboard"

ApiNext ==
  \/ apiCall
  \/ responseRejected
  \/ responseFulfilled

----------------------------------------------------------------------------
\* MainActivity.kt: StudentRegistrationScreen

Plans == {"BASIC", "STANDARD", "EXPERT"}

\* What the text fields can hold: nothing, a space, a letter
FieldTexts == {"", " ", "a"}

\* CharSequence.isBlank(): empty or whitespace only
isBlank(text) == text \in {"", " "}

\* A validate() that does not look at the terms
validateNoTerms ==
  IF isBlank(name) THEN <<FALSE, "Name cannot be empty">>
  ELSE IF isBlank(studentId) THEN <<FALSE, "Student ID cannot be empty">>
  ELSE <<TRUE, "">>

\* validate(): Pair<Boolean, String>
validate ==
  IF isBlank(name) THEN <<FALSE, "Name cannot be empty">>
  ELSE IF isBlank(studentId) THEN <<FALSE, "Student ID cannot be empty">>
  ELSE IF ~termsAgreed THEN <<FALSE, "You must agree to the terms">>
  ELSE <<TRUE, "">>

\* setContent: the screen is composed afresh, every remember starts over
onCreate ==
  /\ UNCHANGED notReg
  /\ name' = ""
  /\ studentId' = ""
  /\ selectedPlan' = "BASIC"
  /\ notificationsEnabled' = FALSE
  /\ termsAgreed' = FALSE
  /\ showSummary' = FALSE
  /\ regEvent' = <<"onCreate", "">>

\* Name field: onValueChange
onNameChange ==
  /\ UNCHANGED notReg
  /\ \E it \in FieldTexts : name' = it
  /\ showSummary' = FALSE
  /\ regEvent' = <<"name", "">>
  /\ UNCHANGED <<studentId, selectedPlan, notificationsEnabled, termsAgreed>>

\* Student ID field: onValueChange
onStudentIdChange ==
  /\ UNCHANGED notReg
  /\ \E it \in FieldTexts : studentId' = it
  /\ showSummary' = FALSE
  /\ regEvent' = <<"studentId", "">>
  /\ UNCHANGED <<name, selectedPlan, notificationsEnabled, termsAgreed>>

\* Plan radio button: onClick
onPlanClick ==
  /\ UNCHANGED notReg
  /\ \E plan \in Plans : selectedPlan' = plan
  /\ showSummary' = FALSE
  /\ regEvent' = <<"plan", "">>
  /\ UNCHANGED <<name, studentId, notificationsEnabled, termsAgreed>>

\* Notifications switch: onCheckedChange
onNotificationsChange ==
  /\ UNCHANGED notReg
  /\ notificationsEnabled' = ~notificationsEnabled
  /\ showSummary' = FALSE
  /\ regEvent' = <<"notifications", "">>
  /\ UNCHANGED <<name, studentId, selectedPlan, termsAgreed>>

\* Terms checkbox: onCheckedChange
onTermsChange ==
  /\ UNCHANGED notReg
  /\ termsAgreed' = ~termsAgreed
  /\ showSummary' = FALSE
  /\ regEvent' = <<"terms", "">>
  /\ UNCHANGED <<name, studentId, selectedPlan, notificationsEnabled>>

\* Preview button: onClick
onPreviewClick ==
  /\ UNCHANGED notReg
  /\ IF validate[1]
     THEN showSummary' = TRUE /\ regEvent' = <<"preview", "">>
     ELSE showSummary' = FALSE /\ regEvent' = <<"preview", validate[2]>>
  /\ UNCHANGED <<name, studentId, selectedPlan, notificationsEnabled,
                 termsAgreed>>

\* Submit button: onClick
onSubmitClick ==
  /\ UNCHANGED notReg
  /\ regEvent' =
       <<"submit", IF validate[1] THEN "Submitted" ELSE validate[2]>>
  /\ UNCHANGED <<name, studentId, selectedPlan, notificationsEnabled,
                 termsAgreed, showSummary>>

RegIdle ==
  /\ name = ""
  /\ studentId = ""
  /\ selectedPlan = "BASIC"
  /\ notificationsEnabled = FALSE
  /\ termsAgreed = FALSE
  /\ showSummary = FALSE
  /\ regEvent = <<"onCreate", "">>

RegNext ==
  \/ onCreate
  \/ onNameChange
  \/ onStudentIdChange
  \/ onPlanClick
  \/ onNotificationsChange
  \/ onTermsChange
  \/ onPreviewClick
  \/ onSubmitClick

ExtraIdle == GptIdle /\ ShIdle /\ ApiIdle /\ RegIdle

----------------------------------------------------------------------------
\* Specifications: one per part of the system, the other parts at rest

\* No page is open
AuthAtRest ==
  /\ variant = "plain"
  /\ devLoggedIn = FALSE
  /\ fbPersisted = NoUser
  /\ currentUser = NoUser
  /\ page = "none"
  /\ mounted = FALSE
  /\ listening = "no"
  /\ user = NoUser
  /\ loading = TRUE
  /\ idToken = NoToken
  /\ pendingTok = <<>>
  /\ view = "unmounted"
  /\ pushPending = FALSE
  /\ redirect = "none"
  /\ requests = {}
  /\ inflight = 0

AuthIdle ==
  /\ nodeEnv = "production"
  /\ AuthAtRest

BackendIdle ==
  /\ defaultProvider = "gpt"
  /\ BackendEmpty

\* The database once user u1 has uploaded one PDF
BackendWithPdf ==
  /\ defaultProvider \in DefaultProviders
  /\ pdfs = [u \in Users |-> IF u = "u1" THEN {1} ELSE {}]
  /\ storage = {StoragePath("u1", 1)}
  /\ exams = [u \in Users |-> {}]
  /\ nextFile = 1
  /\ nextExam = 0
  /\ resp = [endpoint |-> "POST /api/pdf/upload", token |-> "token-u1",
              status |-> 200, body |-> {<<"pdf", "u1", 1>>}]

FactoryIdle == calls = {}

DevIdle == devLoginResult = "none" /\ sessionOp = "none"

InitAuth ==
  /\ AuthInit /\ BackendIdle /\ FactoryIdle /\ FormInit /\ UploadIdle /\ ExamInit
  /\ DevIdle /\ ExtraIdle

SpecAuth == InitAuth /\ [][AuthNext]_vars

InitBackend ==
  /\ BackendInit /\ AuthIdle /\ FactoryIdle /\ FormInit /\ UploadIdle /\ ExamInit
  /\ DevIdle /\ ExtraIdle

SpecBackend == InitBackend /\ [][BackendNext]_vars

InitFactory ==
  /\ defaultProvider \in DefaultProviders
  /\ BackendEmpty
  /\ AuthIdle /\ FactoryIdle /\ FormInit /\ UploadIdle /\ ExamInit
  /\ DevIdle /\ ExtraIdle

SpecFactory == InitFactory /\ [][FactoryNext]_vars

InitGenerate ==
  /\ BackendWithPdf /\ AuthIdle /\ FactoryIdle /\ FormInit /\ UploadIdle /\ ExamInit
  /\ DevIdle /\ ExtraIdle

SpecGenerate == InitGenerate /\ [][FormNext]_vars

InitUpload ==
  /\ UploadInit /\ AuthIdle /\ BackendIdle /\ FactoryIdle /\ FormInit /\ ExamInit
  /\ DevIdle /\ ExtraIdle

SpecUpload == InitUpload /\ [][UploadNext]_vars

InitExam ==
  /\ ExamInit /\ AuthIdle /\ BackendIdle /\ FactoryIdle /\ FormInit /\ UploadIdle
  /\ DevIdle /\ ExtraIdle

SpecExam == InitExam /\ [][ExamNext]_vars

\* The web application at rest
WebIdle ==
  /\ AuthIdle /\ BackendIdle /\ FactoryIdle /\ FormInit /\ UploadIdle /\ ExamInit
  /\ DevIdle

InitGpt == GptIdle /\ WebIdle /\ ShIdle /\ ApiIdle /\ RegIdle

SpecGpt == InitGpt /\ [][GptNext]_vars

InitSh == ShInit /\ WebIdle /\ GptIdle /\ ApiIdle /\ RegIdle

InitApi ==
  /\ ApiIdle
  /\ nodeEnv \in {"development", "production"}
  /\ AuthAtRest /\ BackendIdle /\ FactoryIdle /\ FormInit /\ UploadIdle
  /\ ExamInit /\ DevIdle /\ GptIdle /\ ShIdle /\ RegIdle

SpecApi == InitApi /\ [][ApiNext]_vars

InitReg == RegIdle /\ WebIdle /\ GptIdle /\ ShIdle /\ ApiIdle

SpecReg == InitReg /\ [][RegNext]_vars

\* The shell runs a pending trap, and a signalled process gets its signal
SpecSh ==
  InitSh /\ [][ShNext]_vars /\ WF_vars(shTrap) /\ WF_vars(jobTerm)

----------------------------------------------------------------------------
\* C1: a request to any endpoint other than /, /health and /api/health
\* whose Authorization header does not carry a valid Firebase ID token is
\* answered 401 and leaves the stored PDFs, files and exams as they were;
\* the three public endpoints answer without a token.
C1_TokenRequired ==
  [][ /\ (resp'.endpoint \notin PublicEndpoints
           /\ verify_id_token(resp'.token) = NoUser)
          => (resp'.status = 401 /\ resp'.body = {}
              /\ UNCHANGED <<pdfs, storage, exams>>)
      /\ resp'.endpoint \in PublicEndpoints
          => (resp'.status = 200 /\ UNCHANGED <<pdfs, storage, exams>>)
    ]_vars

C1_Witness ==
  /\ resp.endpoint = "DELETE /api/pdf/{file_id}"
  /\ resp.token \in {"expired", "missing"}
  /\ resp.status = 401
  /\ \A u \in Users : pdfs[u] # {}

\* C7: a response to an authenticated caller contains only PDFs and exams
\* stored under that caller's uid, and a request changes only the PDFs, files
\* and exams stored under the caller's uid.
C7_PerUserIsolation ==
  [][ LET caller == verify_id_token(resp'.token) IN
      /\ \A item \in resp'.body :
            /\ item[2] = caller
            /\ item[1] = "pdf" => item[3] \in pdfs[caller] \cup pdfs'[caller]
            /\ item[1] = "exam" =>
                 \E e \in exams'[caller] : e.exam_id = item[3]
      /\ \A v \in Users \ {caller} : pdfs'[v] = pdfs[v] /\ exams'[v] = exams[v]
      /\ \A path \in (storage \ storage') \cup (storage' \ storage) :
            path[2] = caller
    ]_vars

C7_Witness ==
  /\ resp.endpoint = "GET /api/pdf/list"
  /\ resp.token = "token-u1"
  /\ resp.body # {}
  /\ pdfs["u2"] # {}
  /\ exams["u2"] # {}

\* C5 as stated: "gpt" gives GPTService, "gemini" gives GeminiService, no
\* provider gives the service of DEFAULT_AI_PROVIDER, and every other value
\* raises an error.
C5_FactoryAsStated ==
  \A c \in calls :
    /\ c.provider = "gpt" => c.result = "GPTService"
    /\ c.provider = "gemini" => c.result = "GeminiService"
    /\ c.provider = PyNone =>
         c.result = (IF defaultProvider = "gpt" THEN "GPTService"
                     ELSE "GeminiService")
    /\ c.provider \notin {"gpt", "gemini", PyNone} => c.result = "ValueError"

\* C5, amended: as stated, except that the empty string counts as no
\* provider given: it gives the service of DEFAULT_AI_PROVIDER; every other
\* value raises an error, and a returned service is always the one of the
\* provider asked for or defaulted to.
C5_FactoryEmptyIsDefault ==
  \A c \in calls :
    LET asked == IF c.provider \in {PyNone, ""} THEN defaultProvider
                 ELSE c.provider
    IN  /\ asked = "gpt" => c.result = "GPTService"
        /\ asked = "gemini" => c.result = "GeminiService"
        /\ asked \notin {"gpt", "gemini"} => c.result = "ValueError"

C5_Witness ==
  /\ \E c \in calls : c.provider = "" /\ c.result = "GeminiService"
  /\ \E c \in calls : c.provider = PyNone /\ c.result = "GeminiService"
  /\ \E c \in calls : c.provider = "claude" /\ c.result = "ValueError"
  /\ \E c \in calls : c.provider = "gpt" /\ c.result = "GPTService"

C8_UploadValidated ==
  /\ [](/\ \A file \in uploadsSent :
              file.type = "application/pdf" /\ file.size <= DocMaxFileSize
        /\ uploadCall # NoCall =>
              (uploadCall[1].type = "application/pdf"
               /\ uploadCall[1].size <= DocMaxFileSize)
        /\ uploading <=> uploadCall # NoCall)
  /\ [][ /\ (upEvent'.handler = "handleFileUpload"
              /\ (upEvent'.file.type # "application/pdf"
                  \/ upEvent'.file.size > DocMaxFileSize))
             => UNCHANGED <<uploadCall, uploadsSent, uploading, pagePdfs,
                            srvPdfs, loads>>
         /\ (uploadCall # NoCall /\ uploadCall' = NoCall) => ~uploading'
       ]_vars

C8_Witness ==
  /\ upEvent.handler = "uploadPDF"
  /\ upEvent.file.size = DocMaxFileSize
  /\ ~uploading
  /\ srvPdfs # {}
  /\ \E file \in uploadsSent : file.size = 0

\* C9: while the exam is loaded and not submitted, the localStorage item
\* exam_{examId}_answers holds the current answers; and whenever the page of
\* an exam is open and not submitted, its answers are the ones last entered
\* for that exam, also after the page was closed and opened again; the item
\* of another exam is never touched.
C9_AnswersSavedAndRestored ==
  /\ [](/\ (examId # NoExam /\ exam.loaded /\ ~submitted) =>
              /\ localStorage[examId].present
              /\ JSONparse(localStorage[examId].value) = answers
        /\ (examId # NoExam /\ ~submitted /\ entered[examId].present) =>
              answers = entered[examId].value
        /\ \A e \in ExamIds :
              (e # examId /\ entered[e].present) =>
                (localStorage[e].present
                 /\ JSONparse(localStorage[e].value) = entered[e].value))
  /\ [][\A e \in ExamIds :
          (e # examId /\ e # examId') => localStorage'[e] = localStorage[e]]_vars

C9_Witness ==
  /\ examId = "e1"
  /\ examEvent.handler = "mount"
  /\ entered["e1"].present
  /\ DOMAIN answers = {1, 2}
  /\ answers[1] = "" /\ answers[2] = "b"
  /\ entered["e2"].present

\* C10: handleSubmit marks the exam submitted exactly when every question of
\* the exam has a non-empty answer; otherwise it reports the number of
\* questions without one, leaves submitted false and leaves the saved answers
\* in place.
C10_SubmitOnlyWhenComplete ==
  /\ [](submitted =>
          \A q \in exam.questions : q \in DOMAIN answers /\ answers[q] # "")
  /\ [][examEvent'.handler = "handleSubmit" =>
         LET missing == {q \in exam.questions :
                           q \notin DOMAIN answers \/ answers[q] = ""}
         IN  IF missing = {}
             THEN submitted' /\ examEvent'.toast.title = "submitted"
             ELSE /\ ~submitted'
                  /\ examEvent'.toast =
                       [title |-> "unanswered", count |-> Cardinality(missing)]
                  /\ localStorage' = localStorage
                  /\ localStorage'[examId].present
                  /\ JSONparse(localStorage'[examId].value) = answers'
       ]_vars

C10_Witness ==
  /\ examEvent.handler = "handleSubmit"
  /\ examEvent.toast = [title |-> "unanswered", count |-> 1]
  /\ DOMAIN answers = {1, 2}
  /\ ~submitted

\* C11: outside development mode devLogin returns an error and the
\* dev-logged-in flag is never set, and useAuth never reports the mock user
\* dev-user-123 or its token.
C11_DevLoginDevOnly ==
  ~isDevelopment =>
    /\ ~devLoggedIn
    /\ devLoginResult \in {"none", "error"}
    /\ user # MockUid
    /\ idToken # MockToken

C11_Witness ==
  /\ nodeEnv = "production"
  /\ devLoginResult = "error"
  /\ mounted /\ ~loading
  /\ user \in FirebaseUsers

\* C12: for every request, the models tried are gpt-5, gpt-4.1, gpt-4o,
\* gpt-4o-mini in that order without gaps; every model tried before the last
\* attempt failed; a request that succeeded has the result of its last
\* attempt, which is the first to succeed; a request failed only after all
\* four models failed.
C12_ModelFallbackOrder ==
  LET Ordered(attempts) ==
        /\ Len(attempts) <= Len(FallbackModels)
        /\ \A i \in 1..Len(attempts) :
              /\ attempts[i].model = FallbackModels[i]
              /\ i < Len(attempts) => ~attempts[i].ok
  IN  /\ Ordered(gptRun.attempts)
      /\ \A i \in 1..Len(gptRun.attempts) : ~gptRun.attempts[i].ok
      /\ \A r \in gptLog :
            /\ Ordered(r.attempts)
            /\ r.attempts # <<>>
            /\ r.result = "ok" =>
                 /\ r.attempts[Len(r.attempts)].ok
                 /\ r.model = FallbackModels[Len(r.attempts)]
            /\ r.result = "failed" =>
                 /\ Len(r.attempts) = Len(FallbackModels)
                 /\ \A i \in 1..Len(r.attempts) : ~r.attempts[i].ok

C12_Witness ==
  /\ \E r \in gptLog : r.result = "failed"
  /\ \E r \in gptLog : r.result = "ok" /\ r.model = "gpt-4o"
  /\ \E r \in gptLog : r.result = "ok" /\ r.model = "gpt-5"

\* C13: once a SIGINT has arrived while both servers were started, every
\* job dev.sh started (backend, frontend, log tail) ends: when the script has
\* ended, every job still running has its SIGTERM pending and no job is started
\* any more, and eventually the script has ended and no job is running.
C13_SigintEndsAllJobs ==
  /\ []((sigintSeen /\ shPc = "dead") =>
          \A j \in Jobs : proc[j] = "running" => j \in term)
  /\ [][(sigintSeen /\ shPc = "dead") =>
          \A j \in Jobs : proc[j] # "running" => proc'[j] # "running"]_vars
  /\ (sigintSeen ~> (shPc = "dead" /\ \A j \in Jobs : proc[j] # "running"))

C13_Witness ==
  /\ sigintSeen
  /\ shPc = "dead"
  /\ \A j \in Jobs : proc[j] = "dead"
  /\ term = {}

\* C14: in production mode, whenever no token fetch of a mounted useAuth is
\* pending, idToken is non-null only if user is non-null.
C14_TokenOnlyWithUser ==
  (nodeEnv = "production" /\ mounted /\ pendingTok = <<>>) =>
    (idToken # NoToken => user # NoUser)

\* C15: on the subject page, once every loadData, uploadPDF and deletePDF
\* request has settled and none of them failed, the displayed PDF list equals
\* the server's PDF list for the subject.
C15_ListMatchesServer ==
  (subject /\ ~pageLoading /\ loads = <<>> /\ uploadCall = NoCall
   /\ deleteCall = NoCall /\ ~reqFailed)
    => pagePdfs = srvPdfs

\* C16: in development mode a mounted useAuth has loading = false, and it
\* reports the mock user with token dev-token-123 when the last of devLogin
\* and signOut performed in the session was devLogin, and user = null and
\* idToken = null when it was signOut or when neither was performed.
C16_DevAuthFollowsSession ==
  (isDevelopment /\ mounted) =>
    /\ ~loading
    /\ IF sessionOp = "devLogin"
       THEN user = MockUid /\ idToken = MockToken
       ELSE user = NoUser /\ idToken = NoToken

C16_Witness ==
  /\ isDevelopment /\ mounted
  /\ sessionOp = "signOut"
  /\ page = "/login"
  /\ user = NoUser
  /\ redirect = "user"

\* C17 as stated: every failed call is rejected with an Error whose message
\* is the body's message, else its error field, else 'An error occurred' when
\* a response arrived, and 'No response from server' when none arrived; a 401
\* redirects to /login in production mode only.
C17_AsStated ==
  /\ [](apiRejection # NoRejection =>
         IF apiError.response
         THEN apiRejection.message =
                IF apiError.data.message \notin {Undefined, Str("")}
                THEN apiError.data.message[2]
                ELSE IF apiError.data.error \notin {Undefined, Str("")}
                THEN apiError.data.error[2]
                ELSE "An error occurred"
         ELSE apiRejection.message = "No response from server")
  /\ [][(apiPending /\ apiError' # NoApiError) =>
          IF apiError'.response /\ apiError'.status = 401
             /\ nodeEnv = "production"
          THEN windowLocation' = "/login"
          ELSE windowLocation' = windowLocation]_vars

\* C17: a failed call through apiClient is rejected, for a server error
\* response, with a new Error whose message is the body's message, else its
\* error field, else 'An error occurred' (an empty string counts as missing);
\* for a request that got no response, with a new Error 'No response from
\* server'; and for a failure before any request was made, with the original
\* error unchanged. A 401 response redirects to /login in production mode only.
C17_RejectionByCase ==
  /\ [](apiRejection # NoRejection =>
         IF apiError.response
         THEN /\ ~apiRejection.original
              /\ apiRejection.message =
                   IF apiError.data.message \notin {Undefined, Str("")}
                   THEN apiError.data.message[2]
                   ELSE IF apiError.data.error \notin {Undefined, Str("")}
                   THEN apiError.data.error[2]
                   ELSE "An error occurred"
         ELSE IF apiError.request
         THEN /\ ~apiRejection.original
              /\ apiRejection.message = "No response from server"
         ELSE /\ apiRejection.original
              /\ apiRejection.message = apiError.message)
  /\ [][(apiPending /\ apiError' # NoApiError) =>
          IF apiError'.response /\ apiError'.status = 401
             /\ nodeEnv = "production"
          THEN windowLocation' = "/login"
          ELSE windowLocation' = windowLocation]_vars

C17_Witness ==
  /\ ~apiPending
  /\ apiError.response /\ apiError.status = 401
  /\ apiError.data.message = Str("") /\ apiError.data.error = Str("e")
  /\ apiRejection.message = "e"
  /\ nodeEnv = "production"
  /\ windowLocation = "/login"

\* C19: the summary card of the registration form is shown only while the
\* entered name and student ID are non-blank and the terms are agreed: a
\* Preview click shows it exactly when validation passes, a Submit click
\* leaves it as it was, and every edit of name, ID, plan, notifications or
\* terms hides it.
C19_SummaryOnlyWhenValid ==
  /\ [](showSummary =>
         /\ name \notin {"", " "}
         /\ studentId \notin {"", " "}
         /\ termsAgreed)
  /\ [][
       /\ (regEvent'[1] = "preview") =>
            (showSummary' = (/\ name \notin {"", " "}
                             /\ studentId \notin {"", " "}
                             /\ termsAgreed))
       /\ (regEvent'[1] = "submit") => (showSummary' = showSummary)
       /\ (regEvent'[1] \in
             {"name", "studentId", "plan", "notifications", "terms"}) =>
            ~showSummary'
     ]_regVars

C19_Witness ==
  /\ showSummary
  /\ regEvent = <<"submit", "Submitted">>
  /\ name = "a" /\ studentId = "a" /\ termsAgreed
  /\ selectedPlan = "EXPERT" /\ notificationsEnabled

\* C18: once an exam was submitted, for as long as its page stays open the
\* page shows the submitted view and localStorage holds no
\* exam_{examId}_answers item for it.
C18_SubmittedStaysCleared ==
  /\ [](submitted =>
         /\ examId # NoExam
         /\ ~examLoading /\ exam.loaded
         /\ ~localStorage[examId].present)
  /\ [][(submitted /\ examId' = examId) => submitted']_vars

C18_Witness ==
  /\ submitted
  /\ examEvent.handler = "handleSubmit"
  /\ examEvent.toast.title = "submitted"
  /\ ~localStorage[examId].present
  /\ \E q \in DOMAIN answers : answers[q] # ""

\* C2: in production mode ProtectedRoute shows its children only when auth
\* loading has finished and a user is present; while loading it shows the
\* loading page; once loading has finished with no user it renders nothing
\* and has issued the navigation to /login.
C2_ProtectedRouteGate ==
  (nodeEnv = "production" /\ page = "/dashboard") =>
    /\ (view = "children" => (~loading /\ user # NoUser))
    /\ (loading => view = "loading")
    /\ ((~loading /\ user = NoUser) => (view = "null" /\ pushPending))

C2_Witness ==
  /\ nodeEnv = "production"
  /\ page = "/dashboard"
  /\ view = "children"
  /\ ~loading
  /\ user \in FirebaseUsers

\* C3: every request apiClient sent while useAuth reported a signed-in user
\* carries "Authorization: Bearer <that user's ID token>".
C3_SignedInRequestsCarryToken ==
  \A r \in requests :
    r.user # NoUser => r.header = <<"Bearer", UserToken(r.user)>>

\* C4: on the development server the browser is never sent to /login by
\* ProtectedRoute or by the 401 handler of apiClient.
C4_DevDashboardStays ==
  isDevelopment => redirect \notin {"ProtectedRoute", "interceptor401"}

====
